---- MODULE Spec2Model ----
(***************************************************************************)
(* Model of the memory-matching game engine of                             *)
(* src/components/memory-game.tsx: the four pieces of React state, the     *)
(* session store, the pending setTimeout callbacks with the values their   *)
(* closures captured, and the handlers startGame, handleCardClick,         *)
(* handleComplete, the load/save effects and a page reload.                *)
(*                                                                         *)
(* The handlers are modelled as the operations the engine offers: each can *)
(* be called in any phase, as nothing in the handlers themselves tests     *)
(* gameState (only the JSX decides which button or card is rendered).      *)
(***************************************************************************)
EXTENDS Integers, Sequences, FiniteSets, TLC

(* ---------------------------------------------------------------- bounds *)
\* number of distinct outcomes of the shuffle that are explored
NumShuffles == 2
\* number of startGame calls explored in one behaviour; a callback is
\* scheduled only while isChecking is false, so at most MaxStarts + 1
\* callbacks are ever pending together
MaxStarts == 1

(* ------------------------------------------------------------- constants *)
\* score per matched pair (handleComplete)
ScorePerMatch == 100

\* CARD_CONFIGS: the icons of the pairs.  The source lists six; the model
\* keeps the first two, which makes a deck of four cards
CARD_CONFIGS == <<"Heart", "Star">>

\* CARD_CONFIGS.length, the number of pairs
P == Len(CARD_CONFIGS)

NumCards == 2 * P
Positions == 1..NumCards
\* indexes handed to handleCardClick: 0-based, with one value out of range
\* on each side
ClickIndexes == (0 - 1)..NumCards

\* gameState, cards, matches, isChecking: the useState values of MemoryGame
\* store: sessionStorage;  timers: the pending setTimeout callbacks, oldest first
\* starts: how many times startGame has run
\* last: the operation that led to this state, its outcome and, for a click,
\*       the index clicked, for handleComplete the score handed to onComplete
VARIABLES gameState, cards, matches, isChecking, store, timers, starts, last

vars == <<gameState, cards, matches, isChecking, store, timers, starts, last>>

(* ------------------------------------------------------------ Deck Factory *)
\* Math.floor(card.id / 2)
pairKey(id) == id \div 2

\* the deck before the shuffle: ids 2k and 2k+1 for icon k, all face down
unshuffled ==
  [k \in Positions |->
     [id |-> k - 1, icon |-> pairKey(k - 1), isMatched |-> FALSE, isFlipped |-> FALSE]]

\* createCards with the rotation taken modulo the number of pairs
createCardsModPairs(r) ==
  [k \in Positions |-> unshuffled[((k - 1 + r) % P) + 1]]

\* cards.sort(() => Math.random() - 0.5): a permutation chosen by the random
\* source r; the explored permutations are the rotations by r places
createCards(r) ==
  [k \in Positions |-> unshuffled[((k - 1 + r) % NumCards) + 1]]

(* ---------------------------------------------------- Session persistence *)
\* Number.prototype.toString for a non-negative integer: its decimal digits
RECURSIVE toString(_)
toString(n) == IF n < 10 THEN <<n>> ELSE toString(n \div 10) \o <<n % 10>>

\* parseInt of a digit string
RECURSIVE parseInt(_)
parseInt(s) ==
  IF Len(s) = 1 THEN s[1]
  ELSE 10 * parseInt(SubSeq(s, 1, Len(s) - 1)) + s[Len(s)]

\* cards.map(card => ({...card, icon: undefined, iconIndex: floor(id/2)}))
\* followed by JSON.stringify, which drops the undefined icon
serializableCards(cs) ==
  [k \in DOMAIN cs |->
     [id |-> cs[k].id, iconIndex |-> pairKey(cs[k].id),
      isMatched |-> cs[k].isMatched, isFlipped |-> cs[k].isFlipped]]

\* restoredCards with the icon looked up by card.id instead of floor(id/2)
restoredCardsIconById(parsed) ==
  [k \in DOMAIN parsed |->
     [id |-> parsed[k].id,
      icon |-> IF parsed[k].id \in 0..(P - 1) THEN parsed[k].id ELSE 0,
      isMatched |-> parsed[k].isMatched, isFlipped |-> parsed[k].isFlipped]]

\* parsedCards.map(card => ({...card, icon: iconConfig?.icon || Heart}))
restoredCards(parsed) ==
  [k \in DOMAIN parsed |->
     [id |-> parsed[k].id,
      icon |-> IF pairKey(parsed[k].id) \in 0..(P - 1) THEN pairKey(parsed[k].id) ELSE 0,
      isMatched |-> parsed[k].isMatched, isFlipped |-> parsed[k].isFlipped]]

\* MEMORY_STORAGE_KEYS
CARDS == "memory_cards"
MATCHES == "memory_matches"
IS_CHECKING == "memory_is_checking"
GAME_STATE == "memory_game_state"
StorageKeys == {CARDS, MATCHES, IS_CHECKING, GAME_STATE}

\* Boolean.prototype.toString
boolToString(b) == IF b THEN "true" ELSE "false"

\* the session store is a function from the keys that are present to their
\* values; getItem of a key that is not present gives null
hasItem(s, key) == key \in DOMAIN s

\* a session store that cannot be used: every sessionStorage operation of
\* the page throws.  It is the store with the one entry "unavailable"
unavailableStore == [key \in {"unavailable"} |-> "true"]
storageAvailable(s) == ~hasItem(s, "unavailable")

\* clearSessionStorage has no try/catch: on an unavailable store its
\* removeItem throws out of the handler that called it
clearThrows(s) == ~storageAvailable(s)

\* clearSessionStorage that leaves the IS_CHECKING entry behind
clearSessionStorageButChecking(s) ==
  [key \in (DOMAIN s) \ (StorageKeys \ {IS_CHECKING}) |-> s[key]]

\* clearSessionStorage: removeItem for every key of MEMORY_STORAGE_KEYS
clearSessionStorage(s) ==
  IF storageAvailable(s) THEN [key \in (DOMAIN s) \ StorageKeys |-> s[key]] ELSE s

\* a stored card array is a sequence of records; a text that JSON.parse
\* rejects is the one-element sequence NotJSON
NotJSON == <<[syntaxError |-> TRUE]>>
jsonParses(text) == \A k \in DOMAIN text : "syntaxError" \notin DOMAIN text[k]

\* a session store without any entry
emptyStore == [key \in {} |-> ""]

\* saveEffect without the setItem for the card array
saveEffectNoCards(s, gs, m, cs, chk) ==
  [key \in (DOMAIN s) \cup (StorageKeys \ {CARDS}) |->
     CASE key = GAME_STATE -> gs
       [] key = MATCHES -> toString(m)
       [] key = IS_CHECKING -> boolToString(chk)
       [] OTHER -> s[key]]

\* the save effect: four setItem calls on the store s with the values of the
\* current render; on an unavailable store the first setItem throws and the
\* effect's catch logs it
saveEffect(s, gs, m, cs, chk) ==
  IF storageAvailable(s)
  THEN [key \in (DOMAIN s) \cup StorageKeys |->
          CASE key = GAME_STATE -> gs
            [] key = MATCHES -> toString(m)
            [] key = CARDS -> serializableCards(cs)
            [] key = IS_CHECKING -> boolToString(chk)
            [] OTHER -> s[key]]
  ELSE s

\* the load effect: what each piece of state is after the effect, given the
\* store s and the value d of the first render.  On an unavailable store the
\* first getItem throws into the effect's catch and no state is set
loadGameState(s, d) ==
  IF storageAvailable(s) /\ hasItem(s, GAME_STATE) THEN s[GAME_STATE] ELSE d
loadMatches(s, d) ==
  IF storageAvailable(s) /\ hasItem(s, MATCHES) THEN parseInt(s[MATCHES]) ELSE d
\* JSON.parse throws on a CARDS entry that is not JSON; the throw comes after
\* setGameState and setMatches have been called and is caught by the effect's
\* catch, so only setCards is skipped
loadCards(s, d) ==
  IF storageAvailable(s) /\ hasItem(s, CARDS) /\ jsonParses(s[CARDS])
  THEN restoredCards(s[CARDS]) ELSE d
\* the load effect never reads IS_CHECKING: isChecking keeps its useState value
loadIsChecking(s, d) == d

(* ------------------------------------------------ Game state and handlers *)
\* newCards[clickedIndex] = {...newCards[clickedIndex], isFlipped: true}
flipCard(cs, pos) == [cs EXCEPT ![pos].isFlipped = TRUE]

\* newCards.filter(card => card.isFlipped && !card.isMatched)
flippedCards(cs) == SelectSeq(cs, LAMBDA c : c.isFlipped /\ ~c.isMatched)

\* Math.floor(firstCard.id / 2) === Math.floor(secondCard.id / 2)
isMatchOf(fc) == pairKey(fc[1].id) = pairKey(fc[2].id)

\* match branch of the callback: every flipped, unmatched card becomes matched
markMatched(cs) ==
  [k \in DOMAIN cs |->
     IF cs[k].isFlipped /\ ~cs[k].isMatched THEN [cs[k] EXCEPT !.isMatched = TRUE]
     ELSE cs[k]]

\* flipBack with the test on isMatched inverted
flipBackOnlyMatched(cs) ==
  [k \in DOMAIN cs |->
     IF cs[k].isFlipped /\ cs[k].isMatched THEN [cs[k] EXCEPT !.isFlipped = FALSE]
     ELSE cs[k]]

\* mismatch branch of the callback: every flipped, unmatched card is turned back
flipBack(cs) ==
  [k \in DOMAIN cs |->
     IF cs[k].isFlipped /\ ~cs[k].isMatched THEN [cs[k] EXCEPT !.isFlipped = FALSE]
     ELSE cs[k]]

\* clickIgnored without the test on isFlipped
clickIgnoredNoFlipped(chk, cs, pos) == chk \/ cs[pos].isMatched

\* the guard of handleCardClick; || is evaluated left to right and stops
\* at the first true operand
clickIgnored(chk, cs, pos) == chk \/ cs[pos].isMatched \/ cs[pos].isFlipped

\* flippedCards.length === 2
twoFlipped(cs) == Len(flippedCards(cs)) = 2

\* the closure of the setTimeout callback: newCards, matches and isMatch are
\* the values of the render in which the second card was clicked
timerOf(newCards, m) ==
  [newCards |-> newCards, matches |-> m, isMatch |-> isMatchOf(flippedCards(newCards))]

\* matches + 1 === CARD_CONFIGS.length
completes(m) == m + 1 = P

\* the state the callback t commits
callbackCards(t) == IF t.isMatch THEN markMatched(t.newCards) ELSE flipBack(t.newCards)
callbackMatches(t, m) == IF t.isMatch THEN t.matches + 1 ELSE m
callbackGameState(t, gs) == IF t.isMatch /\ completes(t.matches) THEN "complete" ELSE gs

\* cards[clickedIndex] is undefined and the guard gets as far as reading
\* .isMatched from it: isChecking is tested first and short-circuits
guardThrows(chk, cs, pos) == ~chk /\ pos \notin DOMAIN cs

\* handleCardClick(clickedIndex); clickedIndex is 0-based
handleCardClick(clickedIndex) ==
  LET pos == clickedIndex + 1 IN
  /\ UNCHANGED <<gameState, matches, starts>>
  /\ IF guardThrows(isChecking, cards, pos)
     THEN \* TypeError out of the handler: no state is set
          /\ UNCHANGED <<cards, isChecking, store, timers>>
          /\ last' = [op |-> "flip", res |-> "TypeError", val |-> clickedIndex]
     ELSE IF clickIgnored(isChecking, cards, pos)
     THEN /\ UNCHANGED <<cards, isChecking, store, timers>>
          /\ last' = [op |-> "flip",
                      res |-> IF isChecking THEN "ignored_checking"
                              ELSE IF cards[pos].isMatched THEN "ignored_matched"
                              ELSE "ignored_flipped",
                      val |-> clickedIndex]
     ELSE LET newCards == flipCard(cards, pos) IN
          /\ cards' = newCards
          /\ IF twoFlipped(newCards)
             THEN /\ isChecking' = TRUE
                  /\ timers' = Append(timers, timerOf(newCards, matches))
                  /\ last' = [op |-> "flip", res |-> "scheduled", val |-> clickedIndex]
             ELSE /\ UNCHANGED <<isChecking, timers>>
                  /\ last' = [op |-> "flip", res |-> "flipped", val |-> clickedIndex]
          /\ store' = saveEffect(store, gameState, matches, newCards, isChecking')

\* the setTimeout callback; all delays are 800 ms, so callbacks fire in the
\* order in which they were scheduled
timeoutCallback ==
  /\ timers # <<>>
  /\ LET t == Head(timers) IN
     /\ cards' = callbackCards(t)
     /\ matches' = callbackMatches(t, matches)
     /\ gameState' = callbackGameState(t, gameState)
     /\ isChecking' = FALSE
     /\ last' = [op |-> "resolve", res |-> IF t.isMatch THEN "match" ELSE "mismatch",
                 val |-> 0]
     /\ store' = saveEffect(store, gameState', matches', cards', FALSE)
  /\ timers' = Tail(timers)
  /\ UNCHANGED starts

\* startGame; r is the outcome of the shuffle.  Pending callbacks are not
\* cancelled.  The save effect of the next render follows clearSessionStorage.
\* When clearSessionStorage throws, the four state updates made before it
\* are already queued and still take effect
startGame(r) ==
  /\ starts < MaxStarts
  /\ starts' = starts + 1
  /\ gameState' = "playing"
  /\ cards' = createCards(r)
  /\ matches' = 0
  /\ isChecking' = FALSE
  /\ store' = saveEffect(clearSessionStorage(store), "playing", 0, createCards(r), FALSE)
  /\ last' = [op |-> "start",
              res |-> IF clearThrows(store) THEN "StorageError" ELSE "none",
              val |-> 0]
  /\ UNCHANGED timers

\* scoreOf counting the pair about to be found
scoreOfNext(m) == (m + 1) * ScorePerMatch

\* matches * 100
scoreOf(m) == m * ScorePerMatch

\* handleComplete: the score goes to onComplete; no state changes, so no
\* save effect follows clearSessionStorage.  When clearSessionStorage throws,
\* onComplete, the statement after it, is never reached
handleComplete ==
  /\ store' = clearSessionStorage(store)
  /\ last' = IF clearThrows(store)
             THEN [op |-> "complete", res |-> "StorageError", val |-> 0]
             ELSE [op |-> "complete", res |-> "score", val |-> scoreOf(matches)]
  /\ UNCHANGED <<gameState, cards, matches, isChecking, timers, starts>>

\* a page reload: pending callbacks die with the page; the component mounts
\* with its useState defaults (r is the shuffle of the first render), the load
\* effect restores from the store, and the save effects write the result
reload(r) ==
  /\ gameState' = loadGameState(store, "ready")
  /\ matches' = loadMatches(store, 0)
  /\ cards' = loadCards(store, createCards(r))
  /\ isChecking' = loadIsChecking(store, FALSE)
  /\ timers' = <<>>
  /\ store' = saveEffect(store, gameState', matches', cards', isChecking')
  /\ last' = [op |-> "reload", res |-> "none", val |-> 0]
  /\ UNCHANGED starts

(* ------------------------------------------------------------------- Init *)
\* first mount on an empty session store: useState defaults, then the save
\* effect of the first render
Init ==
  \E r \in 0..(NumShuffles - 1) :
    /\ gameState = "ready"
    /\ cards = createCards(r)
    /\ matches = 0
    /\ isChecking = FALSE
    /\ store = saveEffect(emptyStore, "ready", 0, createCards(r), FALSE)
    /\ timers = <<>>
    /\ starts = 0
    /\ last = [op |-> "mount", res |-> "none", val |-> 0]

Next ==
  \/ \E i \in ClickIndexes : handleCardClick(i)
  \/ timeoutCallback
  \/ \E r \in 0..(NumShuffles - 1) : startGame(r)
  \/ handleComplete
  \/ \E r \in 0..(NumShuffles - 1) : reload(r)

Spec == Init /\ [][Next]_vars

\* the event loop runs every pending callback: a timer that stays pending fires
FairSpec == Spec /\ WF_vars(timeoutCallback)

(* ------------------------------------------- Store written from outside *)
\* something other than this component (another script of the page, the
\* developer tools) overwrites the card array entry with a text that is not
\* JSON.  Only the entry of a game with pairs left to find is overwritten,
\* which keeps matches, and so the state space, finite
corruptCards ==
  /\ matches < P
  /\ hasItem(store, CARDS)
  /\ jsonParses(store[CARDS])
  /\ store' = [store EXCEPT ![CARDS] = NotJSON]
  /\ last' = [op |-> "corrupt", res |-> "none", val |-> 0]
  /\ UNCHANGED <<gameState, cards, matches, isChecking, timers, starts>>

NextCorrupt == Next \/ corruptCards

CorruptSpec == Init /\ [][NextCorrupt]_vars

(* ------------------------------------------------ Store not available *)
\* first mount in an environment whose session store cannot be used: the
\* save effect of the first render fails and is caught
InitNoStore ==
  \E r \in 0..(NumShuffles - 1) :
    /\ gameState = "ready"
    /\ cards = createCards(r)
    /\ matches = 0
    /\ isChecking = FALSE
    /\ store = saveEffect(unavailableStore, "ready", 0, createCards(r), FALSE)
    /\ timers = <<>>
    /\ starts = 0
    /\ last = [op |-> "mount", res |-> "none", val |-> 0]

NoStoreSpec == InitNoStore /\ [][Next]_vars

(* ------------------------------------------------------------ Properties *)
\* position in the deck cs of the card with the given id
posOfId(cs, id) == CHOOSE k \in DOMAIN cs : cs[k].id = id

\* the engine state the spec calls Phase, matchCount, isResolving and Deck
engine == <<gameState, matches, isChecking, cards>>

\* the step is a click / a firing callback
clickStep == last'.op = "flip"
callbackStep == last'.op = "resolve"

\* C1: a callback that was scheduled before start() (it fires right after
\* start, so it belongs to the superseded deck) leaves the new game's Deck,
\* matchCount, Phase and isResolving as start() made them
C1_StaleCallbackHarmless ==
  [][(last.op = "start" /\ callbackStep) => UNCHANGED engine]_vars

\* C2: after a reload while Playing with a pair flipped and unresolved, the
\* pair is eventually resolved (fewer than two cards are left flipped and
\* unmatched)
C2_ReloadedPairResolved ==
  [](( /\ last.op = "reload"
       /\ gameState = "playing"
       /\ Len(flippedCards(cards)) = 2) => <>(Len(flippedCards(cards)) < 2))

\* C3: a callback whose two cards share a pairKey marks both matched, raises
\* matchCount by exactly 1, and no later click or callback takes isFlipped or
\* isMatched away from a matched card
C3_MatchCommit ==
  [][ /\ (callbackStep /\ Head(timers).isMatch) =>
           /\ matches' = matches + 1
           /\ \A j \in {1, 2} :
                LET id == flippedCards(Head(timers).newCards)[j].id IN
                cards'[posOfId(cards', id)].isMatched
      /\ (clickStep \/ callbackStep) =>
           \A k \in DOMAIN cards :
             cards[k].isMatched =>
               LET c == cards'[posOfId(cards', cards[k].id)] IN
               c.isMatched /\ c.isFlipped ]_vars

\* C4: a callback whose two cards do not share a pairKey turns both face
\* down, leaves matchCount and Phase as they are, clears isResolving, and a
\* click on either card is then accepted
C4_MismatchCommit ==
  [][(callbackStep /\ ~Head(timers).isMatch) =>
       /\ matches' = matches
       /\ gameState' = gameState
       /\ isChecking' = FALSE
       /\ \A j \in {1, 2} :
            LET id == flippedCards(Head(timers).newCards)[j].id
                pos == posOfId(cards', id) IN
            /\ ~cards'[pos].isFlipped
            /\ ~guardThrows(isChecking', cards', pos)
            /\ ~clickIgnored(isChecking', cards', pos) ]_vars

C4_Witness ==
  /\ last.op = "resolve" /\ last.res = "mismatch"
  /\ Len(flippedCards(cards)) = 0
  /\ ~isChecking

\* C5: the click that makes two cards flipped and unmatched sets isResolving,
\* and isResolving stays true as long as the callback has not fired
C5_ResolvingUntilCallback ==
  [][ /\ (clickStep /\ Len(flippedCards(cards')) = 2 /\ cards' # cards) => isChecking'
      /\ (isChecking /\ timers # <<>> /\ ~callbackStep) => isChecking' ]_vars

\* C6: at most one resolution callback is pending
C6_OnePending == Len(timers) <= 1

C8_OutOfRangeIsNoOp ==
  [][(clickStep /\ (last'.val + 1) \notin DOMAIN cards) =>
       /\ last'.res # "TypeError"
       /\ UNCHANGED engine]_vars

\* C9: Phase is Complete exactly when matchCount = P; in Complete no click or
\* callback changes Phase, matchCount or the Deck; and of the engine's
\* operations only start() takes Phase out of Complete
C9_CompleteIffAllMatched ==
  /\ [](gameState = "complete" <=> matches = P)
  /\ [][(gameState = "complete" /\ (clickStep \/ callbackStep)) =>
          UNCHANGED <<gameState, matches, cards>>]_vars
  /\ [][(gameState = "complete" /\ gameState' # "complete" /\ last'.op # "reload") =>
          last'.op = "start"]_vars

\* C10: the mount of a reload on a store holding a whole snapshot takes Phase,
\* matchCount, Deck and isResolving from the snapshot
C10_RestoreAllFour ==
  [][(last'.op = "reload" /\ StorageKeys \subseteq DOMAIN store) =>
       /\ gameState' = store[GAME_STATE]
       /\ matches' = parseInt(store[MATCHES])
       /\ cards' = restoredCards(store[CARDS])
       /\ isChecking' = (store[IS_CHECKING] = "true")]_vars

\* the store holds what the save effect writes for the current state
storeIsSnapshot ==
  /\ StorageKeys \subseteq DOMAIN store
  /\ store[GAME_STATE] = gameState
  /\ store[MATCHES] = toString(matches)
  /\ store[IS_CHECKING] = boolToString(isChecking)
  /\ Len(store[CARDS]) = Len(cards)
  /\ \A k \in DOMAIN cards :
       /\ store[CARDS][k].id = cards[k].id
       /\ store[CARDS][k].isFlipped = cards[k].isFlipped
       /\ store[CARDS][k].isMatched = cards[k].isMatched

\* C11: a mount on the store that holds the saved state ends with the same
\* Phase and matchCount and, card by card in the same order, the same id,
\* isFlipped and isMatched, each card's icon being the one at floor(id/2)
C11_SaveLoadRoundTrip ==
  [][(last'.op = "reload" /\ storeIsSnapshot) =>
       /\ gameState' = gameState
       /\ matches' = matches
       /\ Len(cards') = Len(cards)
       /\ \A k \in DOMAIN cards :
            /\ cards'[k].id = cards[k].id
            /\ cards'[k].isFlipped = cards[k].isFlipped
            /\ cards'[k].isMatched = cards[k].isMatched
            /\ cards'[k].icon = cards[k].id \div 2 ]_vars

C11_Witness ==
  /\ last.op = "reload"
  /\ gameState = "playing"
  /\ matches = 1
  /\ \E k \in DOMAIN cards : cards[k].isFlipped /\ ~cards[k].isMatched
  /\ \E k \in DOMAIN cards : ~cards[k].isFlipped

\* the last operation changed the state: start(), an accepted flip or a
\* resolution commit
mutatingOp ==
  \/ last.op \in {"start", "resolve"}
  \/ last.op = "flip" /\ last.res \in {"flipped", "scheduled"}

\* C13: once start(), an accepted flip or a resolution commit has settled, the
\* stored phase, match count, resolving flag and per-card id / isFlipped /
\* isMatched are those of the state in memory
C13_StoreMirrorsState == mutatingOp => storeIsSnapshot

C13_Witness ==
  /\ last.op = "resolve" /\ last.res = "match"
  /\ matches = 1
  /\ storeIsSnapshot

\* C14: handleComplete hands onComplete one score, matches * 100; with all P
\* pairs matched and Phase Complete that is 100 * P
C14_ScoreIsHundredPerMatch ==
  [][last'.op = "complete" =>
       /\ last'.res = "score"
       /\ last'.val = 100 * matches
       /\ (gameState = "complete" /\ matches = P) => last'.val = 100 * P ]_vars

C14_Witness ==
  /\ last.op = "complete" /\ last.res = "score"
  /\ gameState = "complete"
  /\ matches = P
  /\ \A k \in DOMAIN cards : cards[k].isMatched
  /\ last.val = 100 * P

\* the deck cs is all face down and unmatched
allFaceDown(cs) == \A k \in DOMAIN cs : ~cs[k].isFlipped /\ ~cs[k].isMatched

\* C15: after complete() none of the four keys is in the session store, and a
\* reload from there starts in Ready with no match and a face-down deck
C15_CompleteClearsStore ==
  [][ /\ last'.op = "complete" => StorageKeys \cap DOMAIN store' = {}
      /\ (last.op = "complete" /\ last'.op = "reload") =>
           /\ gameState' = "ready"
           /\ matches' = 0
           /\ ~isChecking'
           /\ allFaceDown(cards') ]_vars

C15_Witness ==
  /\ last.op = "reload"
  /\ gameState = "ready"
  /\ starts = 1
  /\ matches = 0
  /\ allFaceDown(cards)

\* the deck cs has 2P cards, ids 0..2P-1 once each, every pairKey twice
wellFormedDeck(cs) ==
  /\ Len(cs) = 2 * P
  /\ \A id \in 0..(2 * P - 1) : Cardinality({k \in DOMAIN cs : cs[k].id = id}) = 1
  /\ \A key \in 0..(P - 1) :
       Cardinality({k \in DOMAIN cs : cs[k].id \div 2 = key}) = 2

\* C16: the Deck is well formed in every reachable state, and the deck that
\* createCards makes (at mount and at start) is all face down
C16_DeckWellFormed ==
  /\ wellFormedDeck(cards)
  /\ last.op \in {"mount", "start"} => allFaceDown(cards)

C16_Witness ==
  /\ last.op = "reload"
  /\ wellFormedDeck(cards)
  /\ \E k \in DOMAIN cards : cards[k].isMatched
  /\ cards[1].id # 0

\* C18: Phase changes only from Ready to Playing by start(), from Playing to
\* Complete by a resolution commit that brings matchCount to P, and from
\* Complete to Playing by start(); clicks and callbacks in Ready change
\* neither Phase nor matchCount
C18_PhaseTransitions ==
  [][ /\ (gameState' # gameState /\ last'.op # "reload") =>
           \/ gameState = "ready" /\ gameState' = "playing" /\ last'.op = "start"
           \/ gameState = "complete" /\ gameState' = "playing" /\ last'.op = "start"
           \/ /\ gameState = "playing" /\ gameState' = "complete"
              /\ callbackStep /\ matches' = P
      /\ (gameState = "ready" /\ (clickStep \/ callbackStep)) =>
           gameState' = "ready" /\ matches' = matches ]_vars

\* number of cards that are flipped and not matched
numFlipped == Len(flippedCards(cards))

\* C19: at most two cards are flipped and unmatched, and exactly two are so
\* exactly when isResolving is true and a callback is pending
C19_AtMostTwoFlipped ==
  /\ numFlipped <= 2
  /\ numFlipped = 2 <=> (isChecking /\ timers # <<>>)

\* number of pairKeys whose two cards are both matched
matchedPairs ==
  Cardinality({key \in 0..(P - 1) :
                 \A k \in DOMAIN cards : cards[k].id \div 2 = key => cards[k].isMatched})

\* C20: matchCount is the number of pairKeys with both cards matched, matched
\* cards come in complete pairs, and 0 <= matchCount <= P
C20_MatchCountIsMatchedPairs ==
  /\ matches = matchedPairs
  /\ \A k, j \in DOMAIN cards :
       cards[k].id \div 2 = cards[j].id \div 2 => cards[k].isMatched = cards[j].isMatched
  /\ matches \in 0..P

\* C12: a mount on a store whose card array does not parse discards the
\* whole snapshot: Ready, no match, a face-down deck
C12_ParseFailureDiscardsSnapshot ==
  [][(/\ last'.op = "reload"
      /\ hasItem(store, CARDS)
      /\ ~jsonParses(store[CARDS])) =>
       /\ gameState' = "ready"
       /\ matches' = 0
       /\ allFaceDown(cards') ]_vars

\* C17: with the session store unavailable, start(), flip(), the callback and
\* complete() raise nothing and do in memory what they do with a store, and
\* complete() hands the score to onComplete
C17_PlayableWithoutStore ==
  [][ /\ (\/ last'.op \in {"start", "resolve", "complete"}
          \/ clickStep /\ (last'.val + 1) \in DOMAIN cards)
         => last'.res \notin {"StorageError", "TypeError"}
      /\ last'.op = "start" =>
           /\ gameState' = "playing" /\ matches' = 0 /\ ~isChecking'
           /\ allFaceDown(cards')
      /\ callbackStep =>
           /\ cards' = callbackCards(Head(timers))
           /\ matches' = callbackMatches(Head(timers), matches)
           /\ ~isChecking'
      /\ (clickStep /\ last'.res \in {"flipped", "scheduled"}) =>
           cards' = flipCard(cards, last'.val + 1)
      /\ last'.op = "complete" =>
           /\ last'.res = "score" /\ last'.val = 100 * matches
           /\ UNCHANGED engine ]_vars

====
